---- MODULE Spec2Model ----
(***************************************************************************)
(* A model of the Deode test runner's cleaning engine                      *)
(* (ttr/src/cleaning.py, remove_ttr_cases) and of the selection resolver   *)
(* and host collector of ttr/src/ttr.py (resolve_selection, prepare).      *)
(*                                                                         *)
(* Spec     : one call of remove_ttr_cases(files, dry_run), one action per *)
(*            statement group, external calls (open, ParsedConfig,         *)
(*            CleanDeode, EcflowServer) with every outcome they can have.  *)
(* FairSpec : Spec with weak fairness of the next step (the function is    *)
(*            sequential, synchronous code: it keeps running).             *)
(* SpecSel  : resolve_selection and prepare on a case registry.            *)
(***************************************************************************)
EXTENDS Integers, Sequences, FiniteSets, TLC

\* ------------------------------------------------------------------ bounds
MaxFiles == 2
MaxRules == 2
MaxSelection == 2
MaxSubtags == 2

\* ------------------------------------------------------- values and helpers
\* the reserved key "defaults" of the [cleaning] table; rule keys are 1..MaxRules
DefaultsKey == 0
RuleKeys == 1..MaxRules
CaseIds == {"caseA", "caseB"}
NoCase == "-"
\* the dry_run entry of one choice of a rule, as configured
Flags == {"True", "False"}
ChoiceNames == {"k1", "k2"}
NoChoices == [k \in ChoiceNames |-> "-"]
NoFailure == [at |-> "none", exc |-> "none"]
NotReturned == [returned |-> FALSE, value |-> <<>>]
NoError == [type |-> "none", message |-> "", case |-> ""]

Range(s) == {s[i] : i \in 1..Len(s)}

SeqsUpTo(S, n) == UNION {[1..k -> S] : k \in 0..n}

DistinctSeqs(S) ==
    {s \in SeqsUpTo(S, Cardinality(S)) : \A i, j \in 1..Len(s) : i # j => s[i] # s[j]}

\* a path of the files argument together with what is on disk behind it
FileKinds ==
    {[exists |-> TRUE, case |-> c] : c \in CaseIds} \cup {[exists |-> FALSE, case |-> NoCase]}

Stages ==
    {"Discovered", "Loaded", "RuleApplied", "DryReported", "Cleaned", "SuiteQueued",
     "SkippedMissing"}

VARIABLES
    \* remove_ttr_cases: arguments and the cleaning document on disk
    files, dry_run, cleaning_keys,
    \* remove_ttr_cases: control and locals
    pc, idx, ridx, rules, config, case, configured, choices, suites,
    \* remove_ttr_cases: what it did (calls made, log, result)
    opened, loads, prepped, cleaned, contacted, schedCalls, warnings, failure, ret,
    raised, stage,
    \* TestCases: the case registry, general, the selection, and what
    \* resolve_selection and prepare gave
    cases, general, selection, selpc, hosts, selerr, base, cases0

cleanVars ==
    <<files, dry_run, cleaning_keys, pc, idx, ridx, rules, config, case, configured,
      choices, suites, opened, loads, prepped, cleaned, contacted, schedCalls, warnings,
      failure, ret, raised, stage>>

selVars == <<cases, general, selection, selpc, hosts, selerr, base, cases0>>

vars == <<cleanVars, selVars>>

\* ------------------------------------------------------ remove_ttr_cases
\* a guard that never sees the empty input
NeverEmpty(fs) == FALSE

\* line 26: the empty-input guard
EmptyInput(fs) == Len(fs) = 0

\* "defaults" left among the rule names
KeepDefaults(keys) == keys

\* lines 32-34: the rule names are the keys left once "defaults" is popped
Rules(keys) == SelectSeq(keys, LAMBDA k : k # DefaultsKey)

\* dry_run taken as advisory: the configured flags are kept
KeepConfigured(chs, dry) == chs

\* lines 50-52: under dry_run every choice gets dry_run = True
ForceDryRun(chs, dry) == IF dry THEN [k \in DOMAIN chs |-> "True"] ELSE chs

\* `break` in place of `continue`
BreakAfterMissing(i) == Len(files) + 1

\* lines 44-46: `continue` moves on to the next file
NextAfterMissing(i) == i + 1

\* the scheduler step outside the dry_run test
AlwaysContactsScheduler(dry) == TRUE

\* lines 63-65: the scheduler is contacted in the else branch of `if dry_run`
ContactsScheduler(dry) == ~dry

\* a handler for UnboundLocalError alone, and a blanket handler
CatchesOnlyUnbound(exc) == exc \in {"UnboundLocalError"}

CatchesEverything(exc) == TRUE

\* line 68: the exceptions the scheduler step's handler catches
Caught(exc) == exc \in {"ModuleNotFoundError", "UnboundLocalError"}

\* an exception that no handler of remove_ttr_cases catches leaves the call
Propagate(at, exc) ==
    /\ pc' = "raised"
    /\ raised' = exc
    /\ failure' = [at |-> at, exc |-> exc]
    /\ UNCHANGED <<ret, warnings>>

\* lines 66-71: an exception inside the try block
SchedulerRaises(at, exc) ==
    IF Caught(exc)
    THEN /\ warnings' = Append(warnings, "suites not removed")
         /\ failure' = [at |-> at, exc |-> exc]
         /\ pc' = "done"
         /\ ret' = "True"
         /\ UNCHANGED raised
    ELSE Propagate(at, exc)

SetStage(i, st) == stage' = [stage EXCEPT ![i] = st]

\* lines 26-28
Call ==
    /\ pc = "call"
    /\ IF EmptyInput(files)
       THEN pc' = "done" /\ ret' = "False"
       ELSE pc' = "open" /\ UNCHANGED ret
    /\ UNCHANGED <<files, dry_run, cleaning_keys, idx, ridx, rules, config, case,
                   configured, choices, suites, opened, loads, prepped, cleaned,
                   contacted, schedCalls, warnings, failure, raised, stage>>

\* lines 30-36: open and parse config_files/cleaning.toml, pop "defaults"
OpenRules ==
    /\ pc = "open"
    /\ \E io \in {"ok", "FileNotFoundError"} :
          IF io # "ok"
          THEN Propagate("open", io) /\ UNCHANGED <<opened, rules, idx>>
          ELSE /\ opened' = TRUE
               /\ IF DefaultsKey \notin Range(cleaning_keys)
                  THEN Propagate("open", "KeyError") /\ UNCHANGED <<rules, idx>>
                  ELSE /\ rules' = Rules(cleaning_keys)
                       /\ idx' = 1
                       /\ pc' = "for_file"
                       /\ UNCHANGED <<ret, warnings, failure, raised>>
    /\ UNCHANGED <<files, dry_run, cleaning_keys, ridx, config, case, configured,
                   choices, suites, loads, prepped, cleaned, contacted, schedCalls,
                   stage>>

\* lines 37, 39-43: the file exists; load and expand its configuration
LoadFile ==
    /\ pc = "for_file"
    /\ idx <= Len(files)
    /\ files[idx].exists
    /\ \E io \in {"ok", "ConfigError"} :
          IF io = "ok"
          THEN /\ config' = idx
               /\ case' = files[idx].case
               /\ loads' = Append(loads, idx)
               /\ ridx' = 1
               /\ pc' = "for_rule"
               /\ SetStage(idx, "Loaded")
               /\ UNCHANGED <<ret, warnings, failure, raised>>
          ELSE Propagate("load", io) /\ UNCHANGED <<config, case, loads, ridx, stage>>
    /\ UNCHANGED <<files, dry_run, cleaning_keys, idx, rules, configured, choices,
                   suites, opened, prepped, cleaned, contacted, schedCalls>>

\* lines 37, 44-46: the file is missing; warn and continue
SkipMissing ==
    /\ pc = "for_file"
    /\ idx <= Len(files)
    /\ ~files[idx].exists
    /\ warnings' = Append(warnings, "Cannot find")
    /\ idx' = NextAfterMissing(idx)
    /\ SetStage(idx, "SkippedMissing")
    /\ UNCHANGED <<files, dry_run, cleaning_keys, pc, ridx, rules, config, case,
                   configured, choices, suites, opened, loads, prepped, cleaned,
                   contacted, schedCalls, failure, ret, raised>>

\* lines 48-54: fetch the rule's choices, force dry_run, build and prime the cleaner
PrepRule ==
    /\ pc = "for_rule"
    /\ ridx <= Len(rules)
    /\ \E cfg \in [ChoiceNames -> Flags], io \in {"ok", "CleanerError"} :
          IF io = "ok"
          THEN /\ configured' = cfg
               /\ choices' = ForceDryRun(cfg, dry_run)
               /\ prepped' = Append(prepped, <<idx, rules[ridx]>>)
               /\ pc' = "clean"
               /\ SetStage(idx, "RuleApplied")
               /\ UNCHANGED <<ret, warnings, failure, raised>>
          ELSE Propagate("prep", io) /\ UNCHANGED <<configured, choices, prepped, stage>>
    /\ UNCHANGED <<files, dry_run, cleaning_keys, idx, ridx, rules, config, case,
                   suites, opened, loads, cleaned, contacted, schedCalls>>

\* lines 55-58: dry run, log what would have been cleaned
DryReport ==
    /\ pc = "clean"
    /\ dry_run
    /\ pc' = "append"
    /\ SetStage(idx, "DryReported")
    /\ UNCHANGED <<files, dry_run, cleaning_keys, idx, ridx, rules, config, case,
                   configured, choices, suites, opened, loads, prepped, cleaned,
                   contacted, schedCalls, warnings, failure, ret, raised>>

\* lines 59-60: live, cleaner.clean()
Clean ==
    /\ pc = "clean"
    /\ ~dry_run
    /\ \E io \in {"ok", "CleanerError"} :
          IF io = "ok"
          THEN /\ cleaned' = Append(cleaned, <<idx, rules[ridx]>>)
               /\ pc' = "append"
               /\ SetStage(idx, "Cleaned")
               /\ UNCHANGED <<ret, warnings, failure, raised>>
          ELSE Propagate("clean", io) /\ UNCHANGED <<cleaned, stage>>
    /\ UNCHANGED <<files, dry_run, cleaning_keys, idx, ridx, rules, config, case,
                   configured, choices, suites, opened, loads, prepped, contacted,
                   schedCalls>>

\* line 61: suites.append(case), then the next rule
AppendSuite ==
    /\ pc = "append"
    /\ suites' = Append(suites, case)
    /\ ridx' = ridx + 1
    /\ pc' = "for_rule"
    /\ SetStage(idx, "SuiteQueued")
    /\ UNCHANGED <<files, dry_run, cleaning_keys, idx, rules, config, case, configured,
                   choices, opened, loads, prepped, cleaned, contacted, schedCalls,
                   warnings, failure, ret, raised>>

\* the file loop left after the first file's rules
NextFileBreaks ==
    /\ pc = "for_rule"
    /\ ridx > Len(rules)
    /\ idx' = Len(files) + 1
    /\ pc' = "for_file"
    /\ UNCHANGED <<files, dry_run, cleaning_keys, ridx, rules, config, case, configured,
                   choices, suites, opened, loads, prepped, cleaned, contacted,
                   schedCalls, warnings, failure, ret, raised, stage>>

\* line 48 exhausted: back to line 37 with the next file
NextFile ==
    /\ pc = "for_rule"
    /\ ridx > Len(rules)
    /\ idx' = idx + 1
    /\ pc' = "for_file"
    /\ UNCHANGED <<files, dry_run, cleaning_keys, ridx, rules, config, case, configured,
                   choices, suites, opened, loads, prepped, cleaned, contacted,
                   schedCalls, warnings, failure, ret, raised, stage>>

\* lines 63-65, 71: after the file loop
AfterLoop ==
    /\ pc = "for_file"
    /\ idx > Len(files)
    /\ IF ContactsScheduler(dry_run)
       THEN pc' = "connect" /\ UNCHANGED ret
       ELSE pc' = "done" /\ ret' = "True"
    /\ UNCHANGED <<files, dry_run, cleaning_keys, idx, ridx, rules, config, case,
                   configured, choices, suites, opened, loads, prepped, cleaned,
                   contacted, schedCalls, warnings, failure, raised, stage>>

\* line 67, first half: EcflowServer(config); `config` is unbound (0) when no file
\* was loaded, and the constructor raises when ecflow cannot be imported
Connect ==
    /\ pc = "connect"
    /\ IF config = 0
       THEN SchedulerRaises("connect", "UnboundLocalError") /\ UNCHANGED contacted
       ELSE /\ contacted' = TRUE
            /\ \E out \in {"ok", "ModuleNotFoundError", "RuntimeError"} :
                  IF out = "ok"
                  THEN pc' = "remove" /\ UNCHANGED <<ret, warnings, failure, raised>>
                  ELSE SchedulerRaises("connect", out)
    /\ UNCHANGED <<files, dry_run, cleaning_keys, idx, ridx, rules, config, case,
                   configured, choices, suites, opened, loads, prepped, cleaned,
                   schedCalls, stage>>

\* line 67, second half, and line 71: remove_suites(suites, check_if_complete=True)
RemoveSuites ==
    /\ pc = "remove"
    /\ schedCalls' = Append(schedCalls, [suites |-> suites, check_if_complete |-> TRUE])
    /\ \E out \in {"ok", "ModuleNotFoundError", "RuntimeError"} :
          IF out = "ok"
          THEN pc' = "done" /\ ret' = "True" /\ UNCHANGED <<warnings, failure, raised>>
          ELSE SchedulerRaises("remove", out)
    /\ UNCHANGED <<files, dry_run, cleaning_keys, idx, ridx, rules, config, case,
                   configured, choices, suites, opened, loads, prepped, cleaned,
                   contacted, stage>>

SelIdle ==
    /\ cases = <<>>
    /\ general = [selection |-> <<>>, subtags |-> <<>>]
    /\ selection = <<>>
    /\ selpc = "idle"
    /\ hosts = NotReturned
    /\ selerr = NoError
    /\ base = <<>>
    /\ cases0 = <<>>

Init ==
    /\ files \in SeqsUpTo(FileKinds, MaxFiles)
    /\ dry_run \in BOOLEAN
    /\ cleaning_keys \in DistinctSeqs({DefaultsKey} \cup RuleKeys)
    /\ pc = "call"
    /\ idx = 0
    /\ ridx = 0
    /\ rules = <<>>
    /\ config = 0
    /\ case = NoCase
    /\ configured = NoChoices
    /\ choices = NoChoices
    /\ suites = <<>>
    /\ opened = FALSE
    /\ loads = <<>>
    /\ prepped = <<>>
    /\ cleaned = <<>>
    /\ contacted = FALSE
    /\ schedCalls = <<>>
    /\ warnings = <<>>
    /\ failure = NoFailure
    /\ ret = "None"
    /\ raised = "none"
    /\ stage = [i \in 1..Len(files) |-> "Discovered"]
    /\ SelIdle

Next ==
    \/ Call /\ UNCHANGED selVars
    \/ OpenRules /\ UNCHANGED selVars
    \/ LoadFile /\ UNCHANGED selVars
    \/ SkipMissing /\ UNCHANGED selVars
    \/ PrepRule /\ UNCHANGED selVars
    \/ DryReport /\ UNCHANGED selVars
    \/ Clean /\ UNCHANGED selVars
    \/ AppendSuite /\ UNCHANGED selVars
    \/ NextFile /\ UNCHANGED selVars
    \/ AfterLoop /\ UNCHANGED selVars
    \/ Connect /\ UNCHANGED selVars
    \/ RemoveSuites /\ UNCHANGED selVars

Spec == Init /\ [][Next]_vars

FairSpec == Spec /\ WF_vars(Next)

\* ------------------------------------------------- properties of Spec
\* what the inputs say, computed without the model's own operators
RuleNames == SelectSeq(cleaning_keys, LAMBDA k : k # 0)

ExistingIdx == {i \in 1..Len(files) : files[i].exists}

RECURSIVE PairsFrom(_)
PairsFrom(i) ==
    IF i > Len(files)
    THEN <<>>
    ELSE (IF files[i].exists
          THEN [k \in 1..Len(RuleNames) |-> <<i, RuleNames[k]>>]
          ELSE <<>>) \o PairsFrom(i + 1)

\* every (existing file, rule) pair, in file order then rule order
ExpectedPairs == PairsFrom(1)

ExpectedSuites == [k \in 1..Len(ExpectedPairs) |-> files[ExpectedPairs[k][1]].case]

\* the file loop of lines 37-61 ran to its end
LoopFinished ==
    \/ pc \in {"connect", "remove"}
    \/ pc = "done" /\ ret = "True"
    \/ pc = "raised" /\ failure.at \in {"connect", "remove"}

SchedulerUnavailable ==
    /\ failure.at \in {"connect", "remove"}
    /\ failure.exc \in {"ModuleNotFoundError", "UnboundLocalError"}

\* C1: with dry_run true the scheduler is never contacted: EcflowServer is not
\* constructed and remove_suites is not called, whatever the rules and the dry_run
\* values configured in their choices.
C1_DryRunNeverContactsScheduler ==
    dry_run => /\ ~contacted
               /\ schedCalls = <<>>
               /\ pc \notin {"connect", "remove"}

C1_Witness ==
    /\ dry_run
    /\ pc = "done"
    /\ ret = "True"
    /\ Len(suites) > 1
    /\ \E k \in ChoiceNames : configured[k] = "False"

C4_Original ==
    failure.at \in {"load", "prep", "clean", "connect", "remove"} =>
        /\ pc # "raised"
        /\ pc = "done" => ret = "True"

\* C4 as amended: only a missing file (warning, next file) and a scheduler step
\* failing with ModuleNotFoundError or UnboundLocalError (warning, return True) are
\* contained; every other failure (opening the rule document, loading a file's
\* configuration, building or running the cleaner, any other scheduler error)
\* leaves the call as that exception, and the files after the failing one are not
\* processed.
C4_OnlySchedulerUnavailabilityIsCaught ==
    /\ pc = "raised" <=> (failure # NoFailure /\ ~SchedulerUnavailable)
    /\ pc = "raised" =>
          /\ raised = failure.exc /\ ret = "None" /\ Len(files) > 0
          /\ failure.at \in {"load", "prep", "clean"} =>
                \A j \in 1..Len(files) : j > idx => stage[j] = "Discovered"
    /\ SchedulerUnavailable => pc = "done" /\ ret = "True" /\ raised = "none"
    /\ (pc = "done" /\ Len(files) > 0) => ret = "True"
    /\ Len(SelectSeq(warnings, LAMBDA w : w = "Cannot find"))
          = Cardinality({i \in 1..Len(files) : stage[i] = "SkippedMissing"})

C4_Witness ==
    /\ pc = "raised"
    /\ failure.at = "load"
    /\ idx < Len(files)
    /\ files[idx + 1].exists

\* C5: a missing file is skipped and the run goes on: nothing is loaded, prepared,
\* cleaned or queued for it, it never is the file an exception is raised for, and
\* once the loop has ended every existing file was loaded and prepared under every
\* rule, wherever the missing files stand.
C5_MissingFileIsSkipped ==
    /\ \A i \in 1..Len(files) : ~files[i].exists =>
          /\ i \notin Range(loads)
          /\ \A k \in 1..Len(prepped) : prepped[k][1] # i
          /\ \A k \in 1..Len(cleaned) : cleaned[k][1] # i
          /\ stage[i] \in {"Discovered", "SkippedMissing"}
    /\ Len(suites) <= Len(prepped)
    /\ \A k \in 1..Len(suites) : suites[k] = files[prepped[k][1]].case
    /\ failure.at \in {"load", "prep", "clean"} => files[idx].exists
    /\ LoopFinished =>
          /\ \A i \in 1..Len(files) : ~files[i].exists => stage[i] = "SkippedMissing"
          /\ \A i \in ExistingIdx :
                /\ i \in Range(loads)
                /\ \A r \in Range(RuleNames) : <<i, r>> \in Range(prepped)

C5_Witness ==
    /\ pc = "done"
    /\ ret = "True"
    /\ Len(files) > 1
    /\ ~files[1].exists
    /\ files[Len(files)].exists
    /\ <<Len(files), 1>> \in Range(cleaned)

\* C6: under dry_run every choice handed to the cleaner has dry_run True whatever
\* was configured and clean() is never called; without dry_run the configured
\* flags are handed over unchanged and clean() runs exactly once per
\* (existing file, rule) pair.
C6_DryRunIsHardOverride ==
    /\ dry_run =>
          /\ cleaned = <<>>
          /\ prepped # <<>> => \A k \in ChoiceNames : choices[k] = "True"
    /\ ~dry_run =>
          /\ prepped # <<>> => choices = configured
          /\ \A i, j \in 1..Len(cleaned) : i # j => cleaned[i] # cleaned[j]
          /\ Range(cleaned) \subseteq Range(ExpectedPairs)
          /\ LoopFinished => cleaned = ExpectedPairs

C6_Witness ==
    /\ dry_run
    /\ pc = "clean"
    /\ \E k \in ChoiceNames : configured[k] = "False"
    /\ \E k \in ChoiceNames : configured[k] = "True"

SuitesPerPair ==
    /\ DefaultsKey \notin Range(rules)
    /\ \A k \in 1..Len(prepped) : prepped[k][2] # 0
    /\ LoopFinished =>
          /\ Len(suites) = Cardinality(ExistingIdx) * Len(RuleNames)
          /\ suites = ExpectedSuites
          /\ prepped = ExpectedPairs
    /\ Len(schedCalls) <= 1
    /\ \A k \in 1..Len(schedCalls) :
          schedCalls[k] = [suites |-> ExpectedSuites, check_if_complete |-> TRUE]

LiveReturn == pc = "done" /\ ret = "True" /\ ~dry_run

\* C9 as stated: suites holds one entry per (existing file, rule) pair, in file
\* order then rule order, "defaults" is never a rule, and in live mode the whole
\* list is passed to a single remove_suites call with check_if_complete true.
C9_Original ==
    /\ SuitesPerPair
    /\ LiveReturn => Len(schedCalls) = 1

\* C9 as amended: the same, except that in live mode the list is passed to at most
\* one remove_suites call: exactly one when a configuration is bound and the
\* scheduler client could be built, none when every file was missing or
\* EcflowServer itself raised ModuleNotFoundError.
C9_SuitesOnePerPair ==
    /\ SuitesPerPair
    /\ LiveReturn => (Len(schedCalls) = 1 <=> failure.at # "connect")
    /\ (LiveReturn /\ ExistingIdx = {}) => schedCalls = <<>>
    /\ (LiveReturn /\ failure = NoFailure) =>
          schedCalls = <<[suites |-> suites, check_if_complete |-> TRUE]>>

C9_Witness ==
    /\ LiveReturn
    /\ failure = NoFailure
    /\ Len(suites) = 4
    /\ suites[1] # suites[4]

\* the per-file machine as the specification draws it
LinearSteps ==
    {<<"Discovered", "Loaded">>, <<"Discovered", "SkippedMissing">>,
     <<"Loaded", "RuleApplied">>, <<"RuleApplied", "DryReported">>,
     <<"RuleApplied", "Cleaned">>, <<"DryReported", "SuiteQueued">>,
     <<"Cleaned", "SuiteQueued">>}

\* the machine the code follows: the cycle is run once per rule
StageSteps == LinearSteps \cup {<<"SuiteQueued", "RuleApplied">>}

StageStep ==
    \A i \in 1..Len(files) : stage'[i] # stage[i] => <<stage[i], stage'[i]>> \in StageSteps

Returned == pc = "done" /\ ret = "True"

\* C10 as stated: when the call has returned, every file is in a terminal state,
\* SkippedMissing if and only if it is absent and SuiteQueued otherwise, for every
\* rule set, one with no rules besides defaults included.
C10_Original ==
    Returned => \A i \in 1..Len(files) :
                    stage[i] = IF files[i].exists THEN "SuiteQueued" ELSE "SkippedMissing"

StageInvariant ==
    /\ \A i \in 1..Len(files) :
          /\ stage[i] \in Stages
          /\ stage[i] = "SkippedMissing" => ~files[i].exists
          /\ stage[i] = "SuiteQueued" =>
                /\ files[i].exists
                /\ i \in Range(loads)
                /\ \E k \in 1..Len(suites) : prepped[k][1] = i /\ suites[k] = files[i].case
          /\ stage[i] \in {"DryReported"} => dry_run
          /\ stage[i] \in {"Cleaned"} => ~dry_run
    /\ Returned => \A i \in 1..Len(files) :
          stage[i] = IF ~files[i].exists THEN "SkippedMissing"
                     ELSE IF RuleNames # <<>> THEN "SuiteQueued" ELSE "Loaded"

\* C10 as amended: every file follows Discovered -> Loaded -> (RuleApplied ->
\* (DryReported | Cleaned) -> SuiteQueued), the bracketed cycle once per rule; a
\* file is queued only after it was loaded and had a rule applied; the call always
\* ends, and when it returns a file is SkippedMissing if and only if it is absent,
\* SuiteQueued if it exists and there is at least one rule, and still Loaded if it
\* exists and there is no rule besides defaults.
C10_PerFileStateMachine ==
    /\ [][StageStep]_vars
    /\ []StageInvariant
    /\ <>(pc \in {"done", "raised"})

C10_Witness ==
    /\ Returned
    /\ RuleNames = <<>>
    /\ Len(files) > 1
    /\ \E i \in 1..Len(files) : stage[i] = "Loaded"
    /\ \E i \in 1..Len(files) : stage[i] = "SkippedMissing"

\* ------------------------------------------- resolve_selection and prepare
\* the case identifiers of the configuration's case table, in table order
IdOrder == <<"X", "Y", "aX">>
\* identifiers general.selection may name; "Z" is no case of the table
SelectionIds == {"X", "Y", "Z"}
SubtagNames == {"a", "b"}
OverlayLists == {<<"foo", "bar">>, <<"bar", "bar">>}
AttrKinds ==
    {<<>>, [host |-> "h1"], [host |-> "h2", extra |-> <<"foo">>], [extra |-> <<"bar", "foo">>]}

\* registries: X and Y with any attributes or not there, aX there or not
Registries ==
    {r \in UNION {[D -> AttrKinds] : D \in SUBSET Range(IdOrder)} :
        "aX" \in DOMAIN r => r["aX"] = [host |-> "h2", extra |-> <<"foo">>]}

SubtagRules == [name : SubtagNames, overlays : OverlayLists]

Generals ==
    LET sels == SeqsUpTo(SelectionIds, MaxSelection)
        subs == SeqsUpTo(SubtagRules, MaxSubtags)
    IN  {<<>>} \cup {[selection |-> x] : x \in sels} \cup {[subtags |-> y] : y \in subs}
        \cup {[selection |-> x, subtags |-> y] : x \in sels, y \in subs}

RECURSIVE Dedup(_)
Dedup(s) ==
    IF s = <<>>
    THEN <<>>
    ELSE LET front == Dedup(SubSeq(s, 1, Len(s) - 1))
         IN  IF s[Len(s)] \in Range(front) THEN front ELSE Append(front, s[Len(s)])

\* an ordered set: an identifier is added once
AddId(sel, id) == IF id \in Range(sel) THEN sel ELSE Append(sel, id)

\* 4.1 step 1: general.selection if present and non-empty, else every registered key
BaseSelection(g, cs) ==
    IF "selection" \in DOMAIN g /\ g.selection # <<>>
    THEN g.selection
    ELSE SelectSeq(IdOrder, LAMBDA id : id \in DOMAIN cs)

Subtags(g) == IF "subtags" \in DOMAIN g THEN g.subtags ELSE <<>>

\* a synthesized case that keeps repeated overlays
SynthesizeNoDedup(name, overlays, attrs) ==
    [k \in DOMAIN attrs \cup {"subtag", "extra"} |->
        IF k = "subtag" THEN name
        ELSE IF k = "extra"
             THEN (IF "extra" \in DOMAIN attrs THEN attrs.extra ELSE <<>>) \o overlays
             ELSE attrs[k]]

\* 4.1 step 2: a copy of the base case with subtag set and extra the union of the
\* base case's extra and the overlays, repeated identifiers dropped
Synthesize(name, overlays, attrs) ==
    [k \in DOMAIN attrs \cup {"subtag", "extra"} |->
        IF k = "subtag" THEN name
        ELSE IF k = "extra"
             THEN Dedup((IF "extra" \in DOMAIN attrs THEN attrs.extra ELSE <<>>) \o overlays)
             ELSE attrs[k]]

\* 4.1 steps 2-3, for the k-th (subtag rule, base case) pair, rules outermost
RECURSIVE Expand(_, _, _, _, _)
Expand(k, subs, bs, cs, sel) ==
    IF k > Len(subs) * Len(bs)
    THEN [cases |-> cs, selection |-> sel, err |-> NoError]
    ELSE LET rule == subs[((k - 1) \div Len(bs)) + 1]
             id == bs[((k - 1) % Len(bs)) + 1]
             newid == rule.name \o id
         IN  IF newid \in DOMAIN cs
             THEN Expand(k + 1, subs, bs, cs, AddId(sel, newid))
             ELSE IF id \notin DOMAIN cs
                  THEN [cases |-> cs, selection |-> sel,
                        err |-> [type |-> "KeyError", message |-> "The case", case |-> id]]
                  ELSE Expand(k + 1, subs, bs,
                              (newid :> Synthesize(rule.name, rule.overlays, cs[id])) @@ cs,
                              AddId(sel, newid))

\* prepare that passes over an unregistered case
CollectRegisteredHosts(sel, cs) ==
    LET known == SelectSeq(sel, LAMBDA id : id \in DOMAIN cs /\ "host" \in DOMAIN cs[id])
    IN  [err |-> NoError, hosts |-> [k \in 1..Len(known) |-> cs[known[k]].host]]

RECURSIVE CollectFrom(_, _, _, _)
CollectFrom(i, sel, cs, acc) ==
    IF i > Len(sel)
    THEN [err |-> NoError, hosts |-> acc]
    ELSE IF sel[i] \notin DOMAIN cs
         THEN [err |-> [type |-> "KeyError", message |-> "The case", case |-> sel[i]],
               hosts |-> <<>>]
         ELSE CollectFrom(i + 1, sel, cs,
                          IF "host" \in DOMAIN cs[sel[i]]
                          THEN Append(acc, cs[sel[i]].host)
                          ELSE acc)

\* 4.2: the hosts of the selected cases in selection order, CaseNotFound for an
\* identifier that is no key of the registry
CollectHosts(sel, cs) == CollectFrom(1, sel, cs, <<>>)

\* 4.1: resolve_selection(definitions)
ResolveSelection ==
    /\ selpc = "configured"
    /\ LET bs == BaseSelection(general, cases)
           out == Expand(1, Subtags(general), bs, cases, bs)
       IN  /\ base' = bs
           /\ cases' = out.cases
           /\ IF out.err = NoError
              THEN selection' = out.selection /\ selpc' = "resolved" /\ UNCHANGED selerr
              ELSE selerr' = out.err /\ selpc' = "resolve_failed" /\ UNCHANGED selection
    /\ UNCHANGED <<general, hosts, cases0>>

\* 4.2: prepare()
Prepare ==
    /\ selpc = "resolved"
    /\ LET out == CollectHosts(selection, cases)
       IN  IF out.err = NoError
           THEN /\ hosts' = [returned |-> TRUE, value |-> out.hosts]
                /\ selpc' = "prepared"
                /\ UNCHANGED selerr
           ELSE /\ selerr' = out.err
                /\ selpc' = "prepare_failed"
                /\ UNCHANGED hosts
    /\ UNCHANGED <<cases, general, selection, base, cases0>>

CleanIdle ==
    /\ files = <<>>
    /\ dry_run = TRUE
    /\ cleaning_keys = <<>>
    /\ pc = "idle"
    /\ idx = 0
    /\ ridx = 0
    /\ rules = <<>>
    /\ config = 0
    /\ case = NoCase
    /\ configured = NoChoices
    /\ choices = NoChoices
    /\ suites = <<>>
    /\ opened = FALSE
    /\ loads = <<>>
    /\ prepped = <<>>
    /\ cleaned = <<>>
    /\ contacted = FALSE
    /\ schedCalls = <<>>
    /\ warnings = <<>>
    /\ failure = NoFailure
    /\ ret = "None"
    /\ raised = "none"
    /\ stage = <<>>

InitSel ==
    /\ cases \in Registries
    /\ cases0 = cases
    /\ general \in Generals
    /\ selection = <<>>
    /\ base = <<>>
    /\ selpc = "configured"
    /\ hosts = NotReturned
    /\ selerr = NoError
    /\ CleanIdle

NextSel ==
    \/ ResolveSelection /\ UNCHANGED cleanVars
    \/ Prepare /\ UNCHANGED cleanVars

SpecSel == InitSel /\ [][NextSel]_vars

\* ------------------------------------------------ properties of SpecSel
NoRepeats(x) == \A i, j \in 1..Len(x) : i # j => x[i] # x[j]

FirstAt(s, e) == CHOOSE i \in 1..Len(s) : s[i] = e /\ \A j \in 1..(i - 1) : s[j] # e

\* x holds the identifiers of s once each, in the order of their first occurrence
IsDedupOf(x, s) ==
    /\ NoRepeats(x)
    /\ Range(x) = Range(s)
    /\ \A i, j \in 1..Len(x) : i < j => FirstAt(s, x[i]) < FirstAt(s, x[j])

ExtraOf(attrs) == IF "extra" \in DOMAIN attrs THEN attrs.extra ELSE <<>>

RuleList == IF "subtags" \in DOMAIN general THEN general.subtags ELSE <<>>

Resolved == selpc \in {"resolved", "prepared", "prepare_failed"}

\* the case name+C as the rule {name: overlays} synthesizes it from base case C
SynthesizedAsClaimed(r, b) ==
    LET name == RuleList[r].name
        overlays == RuleList[r].overlays
        C == base[b]
        id == name \o C
    IN  /\ id \in Range(selection)
        /\ id \in DOMAIN cases
        /\ "subtag" \in DOMAIN cases[id] /\ cases[id].subtag = name
        /\ "host" \in DOMAIN cases[id] <=> "host" \in DOMAIN cases0[C]
        /\ "host" \in DOMAIN cases0[C] => cases[id].host = cases0[C].host
        /\ "extra" \in DOMAIN cases[id]
        /\ IsDedupOf(cases[id].extra, ExtraOf(cases0[C]) \o overlays)

\* name+C was no key of the registry when the rule came to base case C
Fresh(r, b) ==
    LET id == RuleList[r].name \o base[b]
    IN  /\ id \notin DOMAIN cases0
        /\ \A r2 \in 1..Len(RuleList), b2 \in 1..Len(base) :
              (r2 < r \/ (r2 = r /\ b2 < b)) => RuleList[r2].name \o base[b2] # id

\* C7 as stated: after resolve_selection, for every subtag rule and every base case
\* C, name+C is selected and registered with subtag = name, C's host, and
\* extra = dedup(E ++ overlays), which is overlays itself when C has no extra; the
\* base identifiers stay selected.
C7_Original ==
    Resolved =>
        /\ \A r \in 1..Len(RuleList), b \in 1..Len(base) :
              /\ SynthesizedAsClaimed(r, b)
              /\ "extra" \notin DOMAIN cases0[base[b]] =>
                    cases[RuleList[r].name \o base[b]].extra = RuleList[r].overlays
        /\ \A b \in 1..Len(base) : base[b] \in Range(selection)

\* C7 as amended: the same for every rule and base case whose name+C was not yet a
\* key of the registry when the rule came to it (a key that existed is selected
\* and left as it was), and with extra = overlays for a base case without extra
\* only up to the removal of repeated overlay identifiers.
C7_SubtagExpansion ==
    Resolved =>
        /\ \A r \in 1..Len(RuleList), b \in 1..Len(base) :
              LET id == RuleList[r].name \o base[b]
              IN  /\ id \in Range(selection)
                  /\ id \in DOMAIN cases
                  /\ Fresh(r, b) => SynthesizedAsClaimed(r, b)
                  /\ (Fresh(r, b) /\ "extra" \notin DOMAIN cases0[base[b]]) =>
                        /\ IsDedupOf(cases[id].extra, RuleList[r].overlays)
                        /\ NoRepeats(RuleList[r].overlays) =>
                              cases[id].extra = RuleList[r].overlays
                  /\ id \in DOMAIN cases0 => cases[id] = cases0[id]
        /\ \A b \in 1..Len(base) : base[b] \in Range(selection)
        /\ \A id \in DOMAIN cases0 : id \in DOMAIN cases /\ cases[id] = cases0[id]

C7_Witness ==
    /\ Resolved
    /\ Len(RuleList) = 2
    /\ base = <<"X", "Y">>
    /\ "aX" \notin DOMAIN cases0
    /\ RuleList[1].name = "a"
    /\ cases0["X"] = [host |-> "h2", extra |-> <<"foo">>]
    /\ cases["aX"] = [host |-> "h2", subtag |-> "a", extra |-> <<"foo", "bar">>]
    /\ "extra" \notin DOMAIN cases0["Y"]
    /\ selection = <<"X", "Y", "aX", "aY", "bX", "bY">>

HostsInOrder ==
    LET with == SelectSeq(selection, LAMBDA id : "host" \in DOMAIN cases[id])
    IN  [k \in 1..Len(with) |-> cases[with[k]].host]

\* C8: prepare on a selection with an identifier that is no key of the registry
\* fails with a KeyError "The case ..." naming that case and returns no host list;
\* with every identifier registered it returns the hosts in selection order,
\* leaving out the cases without host.
C8_PrepareHosts ==
    /\ selpc \in {"prepared", "prepare_failed"} =>
          (selpc = "prepare_failed" <=> \E i \in 1..Len(selection) : selection[i] \notin DOMAIN cases)
    /\ selpc = "prepare_failed" =>
          /\ hosts = NotReturned
          /\ selerr.type = "KeyError"
          /\ selerr.message = "The case"
          /\ selerr.case \in Range(selection) /\ selerr.case \notin DOMAIN cases
    /\ selpc = "prepared" =>
          /\ selerr = NoError
          /\ hosts = [returned |-> TRUE, value |-> HostsInOrder]

C8_Witness ==
    /\ selpc = "prepare_failed"
    /\ Len(selection) = 2
    /\ selection[1] \in DOMAIN cases
    /\ "host" \in DOMAIN cases[selection[1]]
    /\ selerr.case = selection[2]

====
